---- MODULE Spec2Model ----
(***************************************************************************)
(* Paris Trees MCP server (src/src/mcp_arbres_paris.py): six tools that    *)
(* build a query-parameter mapping, call the Gateway (make_api_request)    *)
(* once or twice and render the JSON body as text.                         *)
(*                                                                         *)
(* JSON values are tagged records; a JSON object is a function whose       *)
(* domain is the set of keys present.  A text is the sequence of its       *)
(* lines (the returned string split at its newlines).                      *)
(***************************************************************************)
EXTENDS Integers, Sequences, FiniteSets, TLC

VARIABLES pc, call, locals, sent, got, ret

vars == <<pc, call, locals, sent, got, ret>>

-----------------------------------------------------------------------------
(* Bounds of the model *)

\* longest `results` array the upstream returns
MaxRecords == 2
\* number of invocations the host may have in flight at once
NumCalls == 2

-----------------------------------------------------------------------------
(* Module configuration *)

BASE_URL == "https://opendata.paris.fr/api/explore/v2.1"
DATASET_ID == "les-arbres"
MAX_LIMIT == 100
\* get_dataset_info shows fields[:15]
FIELDS_SHOWN == 15
\* get_tree_species_info: literal limits of the two queries, stats[:10]
STATS_LIMIT == 20
EXAMPLES_LIMIT == 5
DISTRICTS_SHOWN == 10

-----------------------------------------------------------------------------
(* JSON / Python values *)

JNull == [t |-> "null"]
JNum(n) == [t |-> "num", n |-> n]
JStr(s) == [t |-> "str", s |-> s]
JList(l) == [t |-> "list", l |-> l]
JObj(o) == [t |-> "obj", o |-> o]
\* a Python float argument, with its str() and its "{:.6f}" renderings
JFloat(repr, f6) == [t |-> "float", repr |-> repr, f6 |-> f6]
\* the empty mapping {}
EmptyMap == [k \in {} |-> JNull]

\* Python None for an optional argument
None == JNull

\* an exception in flight: its class name and str(e)
Exc(type, msg) == [raised |-> TRUE, type |-> type, msg |-> msg]
\* a value computed without raising
Val(v) == [raised |-> FALSE, v |-> v]

\* bool(v)
Truthy(v) ==
    CASE v.t = "null" -> FALSE
      [] v.t = "num" -> v.n # 0
      [] v.t = "float" -> TRUE
      [] v.t = "str" -> v.s # ""
      [] v.t = "list" -> v.l # <<>>
      [] v.t = "obj" -> DOMAIN v.o # {}

\* mutant: d.get(key), the default left out
GetNoDefault(d, key, default) == IF key \in DOMAIN d THEN d[key] ELSE JNull

\* d.get(key, default) on a mapping d
Get(d, key, default) == IF key \in DOMAIN d THEN d[key] ELSE default

Min(a, b) == IF a <= b THEN a ELSE b

RECURSIVE Sum(_)
Sum(s) == IF s = <<>> THEN 0 ELSE Head(s) + Sum(Tail(s))

RECURSIVE Flatten(_)
Flatten(ss) == IF ss = <<>> THEN <<>> ELSE Head(ss) \o Flatten(Tail(ss))

\* str.lower(), character by character
LowerChar(c) ==
    CASE c = "O" -> "o" [] c = "U" -> "u" [] c = "I" -> "i"
      [] c = "N" -> "n" [] OTHER -> c

RECURSIVE Lower(_)
Lower(s) ==
    IF Len(s) = 0 THEN ""
    ELSE LowerChar(SubSeq(s, 1, 1)) \o Lower(SubSeq(s, 2, Len(s)))

\* str(v) as an f-string renders it
PyStr(v) ==
    CASE v.t = "null" -> "None"
      [] v.t = "num" -> ToString(v.n)
      [] v.t = "float" -> v.repr
      [] v.t = "str" -> v.s
      [] v.t = "list" -> "[...]"
      [] v.t = "obj" -> "{...}"

Pad3(n) ==
    IF n < 10 THEN "00" \o ToString(n)
    ELSE IF n < 100 THEN "0" \o ToString(n) ELSE ToString(n)

RECURSIVE Commas(_)
Commas(n) ==
    IF n < 0 THEN "-" \o Commas(0 - n)
    ELSE IF n < 1000 THEN ToString(n)
    ELSE Commas(n \div 1000) \o "," \o Pad3(n % 1000)

\* f"{v:,}": only numbers accept the format
FmtThousands(v) ==
    IF v.t = "num" THEN Val(Commas(v.n))
    ELSE Exc("TypeError", "unsupported format string passed to "
                          \o (IF v.t = "null" THEN "NoneType" ELSE v.t)
                          \o ".__format__")

\* f"{v:.6f}" for the whole-number coordinates of the fixtures
Fmt6f(v) ==
    IF v.t = "num" THEN Val(ToString(v.n) \o ".000000")
    ELSE IF v.t = "float" THEN Val(v.f6)
    ELSE Exc("TypeError", "unsupported format string passed to "
                          \o (IF v.t = "null" THEN "NoneType" ELSE v.t)
                          \o ".__format__")

\* v.lower() where v was fetched from a record
LowerOf(v) ==
    IF v.t = "str" THEN Val(Lower(v.s))
    ELSE Exc("AttributeError",
             "'" \o (IF v.t = "null" THEN "NoneType" ELSE v.t)
                 \o "' object has no attribute 'lower'")

\* v.get(key, default) where v was fetched from a record
GetOf(v, key, default) ==
    IF v.t = "obj" THEN Val(Get(v.o, key, default))
    ELSE Exc("AttributeError",
             "'" \o (IF v.t = "null" THEN "NoneType" ELSE v.t)
                 \o "' object has no attribute 'get'")

StartsWith(s, p) == Len(s) >= Len(p) /\ SubSeq(s, 1, Len(p)) = p

\* run F on the value of r unless r is an exception in flight
Then(r, F(_)) == IF r.raised THEN r ELSE F(r.v)

\* x or default
OrElse(v, default) == IF Truthy(v) THEN v ELSE default

\* the lines of the items of a loop, or the first exception an item raised
CollectLines(items) ==
    IF \E i \in DOMAIN items : items[i].raised
    THEN items[CHOOSE i \in DOMAIN items :
                 /\ items[i].raised
                 /\ \A j \in DOMAIN items : items[j].raised => i <= j]
    ELSE Val(Flatten([i \in DOMAIN items |-> items[i].v]))

\* f"{i:2d}"
Fmt2d(i) == IF i < 10 THEN " " \o ToString(i) ELSE ToString(i)

-----------------------------------------------------------------------------
(* The tools' names, endpoints and error prefixes *)

Tools == {"get_dataset_info", "search_trees", "get_tree_statistics",
          "find_trees_near_location", "find_remarkable_trees",
          "get_tree_species_info"}

\* make_api_request: url = f"{BASE_URL}{endpoint}"
Url(endpoint) == BASE_URL \o endpoint

MetadataEndpoint == "/catalog/datasets/" \o DATASET_ID
RecordsEndpoint == "/catalog/datasets/" \o DATASET_ID \o "/records"

\* the glyphs of the reports, written in ASCII
Star == "<star>"
Page == "<page>"

-----------------------------------------------------------------------------
(* Query parameters *)

\* mutant: `if where is not None` in place of `if where`
OptNotNone(key, v) == IF v # None THEN key :> v ELSE EmptyMap

Opt(key, v) == IF Truthy(v) THEN key :> v ELSE EmptyMap

\* search_trees: params
SearchTreesParams(a) ==
    ("limit" :> JNum(Min(a.limit.n, MAX_LIMIT)) @@ "offset" :> a.offset)
    @@ Opt("where", a.where) @@ Opt("select", a.select)
    @@ Opt("order_by", a.order_by)

\* get_tree_statistics: params
TreeStatisticsParams(a) ==
    ("select" :> JStr(a.group_by.s \o ", count(*) as tree_count")
     @@ "group_by" :> a.group_by
     @@ "limit" :> a.limit
     @@ "order_by" :> JStr("tree_count DESC"))
    @@ Opt("where", a.where)

NearPoint(a) ==
    "geom'POINT(" \o PyStr(a.longitude) \o " " \o PyStr(a.latitude) \o ")'"

\* find_trees_near_location: params
NearLocationParams(a) ==
    "where" :> JStr("distance(geo_point_2d, " \o NearPoint(a) \o ", "
                    \o PyStr(a.distance_meters) \o "m)")
    @@ "limit" :> JNum(Min(a.limit.n, MAX_LIMIT))
    @@ "order_by" :> JStr("distance(geo_point_2d, " \o NearPoint(a) \o ") ASC")

\* find_remarkable_trees: params
RemarkableParams(a) ==
    "where" :> JStr("remarquable='OUI'"
                    \o (IF Truthy(a.arrondissement)
                        THEN " AND arrondissement='" \o a.arrondissement.s \o "'"
                        ELSE ""))
    @@ "limit" :> JNum(Min(a.limit.n, MAX_LIMIT))
    @@ "order_by" :> JStr("hauteurenm DESC")

SpeciesWhere(a) == JStr("libellefrancais='" \o a.species_name.s \o "'")

\* get_tree_species_info: params of the first query
SpeciesStatsParams(a) ==
    "where" :> SpeciesWhere(a)
    @@ "select" :> JStr("arrondissement, count(*) as tree_count")
    @@ "group_by" :> JStr("arrondissement")
    @@ "limit" :> JNum(STATS_LIMIT)
    @@ "order_by" :> JStr("tree_count DESC")

\* get_tree_species_info: params of the second query
SpeciesExamplesParams(a) ==
    "where" :> SpeciesWhere(a)
    @@ "limit" :> JNum(EXAMPLES_LIMIT)
    @@ "order_by" :> JStr("hauteurenm DESC")

\* the GET a tool issues as its n-th Gateway call
Request(tool, a, n) ==
    CASE tool = "get_dataset_info" ->
           [url |-> Url(MetadataEndpoint), params |-> EmptyMap]
      [] tool = "search_trees" ->
           [url |-> Url(RecordsEndpoint), params |-> SearchTreesParams(a)]
      [] tool = "get_tree_statistics" ->
           [url |-> Url(RecordsEndpoint), params |-> TreeStatisticsParams(a)]
      [] tool = "find_trees_near_location" ->
           [url |-> Url(RecordsEndpoint), params |-> NearLocationParams(a)]
      [] tool = "find_remarkable_trees" ->
           [url |-> Url(RecordsEndpoint), params |-> RemarkableParams(a)]
      [] tool = "get_tree_species_info" ->
           [url |-> Url(RecordsEndpoint),
            params |-> IF n = 1 THEN SpeciesStatsParams(a)
                       ELSE SpeciesExamplesParams(a)]

\* mutant: every tool goes on to a second call
CallsOfTwice(tool) == 2

\* how many Gateway calls the tool's body makes when none fails
CallsOf(tool) == IF tool = "get_tree_species_info" THEN 2 ELSE 1

-----------------------------------------------------------------------------


(* Rendering the responses *)

\* record.get(key, default) rendered in an f-string
Field(record, key, default) == PyStr(Get(record, key, JStr(default)))

\* search_trees: `if remarquable and remarquable.lower() == 'oui'`
SearchTreesRemarkable(record) ==
    LET remarquable == Get(record, "remarquable", JStr(""))
    IN  IF ~Truthy(remarquable) THEN Val(FALSE)
        ELSE Then(LowerOf(remarquable), LAMBDA low : Val(low = "oui"))

\* find_trees_near_location, get_tree_species_info:
\* `record.get('remarquable', '').lower() == 'oui'`
LowerRemarkable(record) ==
    Then(LowerOf(Get(record, "remarquable", JStr(""))),
         LAMBDA low : Val(low = "oui"))

\* search_trees: the coordinates line of a record, when it has one
SearchTreesCoords(record) ==
    IF "geo_point_2d" \in DOMAIN record /\ Truthy(record["geo_point_2d"])
    THEN LET coords == record["geo_point_2d"]
         IN  IF coords.t # "obj"
             THEN Exc("TypeError", "argument of type '" \o coords.t
                                   \o "' is not iterable")
             ELSE IF "lat" \in DOMAIN coords.o /\ "lon" \in DOMAIN coords.o
             THEN Then(Fmt6f(coords.o["lat"]), LAMBDA lat :
                  Then(Fmt6f(coords.o["lon"]), LAMBDA lon :
                  Val(<<"   Coordinates: " \o lat \o ", " \o lon>>)))
             ELSE Val(<<>>)
    ELSE Val(<<>>)

\* search_trees: one record of the loop
SearchTreesItem(i, record) ==
    Then(SearchTreesRemarkable(record), LAMBDA flagged :
    Then(SearchTreesCoords(record), LAMBDA coordsLine :
    Val(<<"",
          ToString(i) \o ". Tree Information:",
          "   Species: " \o Field(record, "libellefrancais", "Unknown"),
          "   Genus: " \o Field(record, "genre", "N/A"),
          "   Height: " \o Field(record, "hauteurenm", "N/A") \o " m",
          "   Circumference: " \o Field(record, "circonferenceencm", "N/A")
                               \o " cm",
          "   District: " \o Field(record, "arrondissement", "N/A"),
          "   Address: " \o Field(record, "adresse", "N/A"),
          "   Stage of Development: "
                \o Field(record, "stadedeveloppement", "N/A")>>
        \o (IF flagged
            THEN <<"   " \o Star \o " Remarkable Tree: Yes (heritage tree)">>
            ELSE <<>>)
        \o coordsLine)))

\* mutant: `>=` in place of `>`
SearchTreesHasMoreOrEqual(total_count, offset, shown) ==
    total_count >= offset + shown

\* search_trees: `total_count > offset + len(records)`
SearchTreesHasMore(total_count, offset, shown) == total_count > offset + shown

\* search_trees: the offset the hint names
SearchTreesHintOffset(offset, limit) == offset + limit

\* search_trees: the body after the Gateway call
SearchTreesRender(a, result) ==
    LET total_count == Get(result, "total_count", JNum(0))
        records == Get(result, "results", JList(<<>>))
    IN  IF ~Truthy(records)
        THEN Val(<<"No trees found matching your criteria.">>)
        ELSE
        Then(FmtThousands(total_count), LAMBDA total :
        Then(CollectLines([i \in 1..Len(records.l) |->
                              SearchTreesItem(i, records.l[i].o)]),
             LAMBDA items :
        Val(<<"Found " \o total \o " trees total. Showing "
                \o ToString(Len(records.l)) \o " results (offset: "
                \o PyStr(a.offset) \o "):", "">>
            \o items
            \o (IF SearchTreesHasMore(total_count.n, a.offset.n, Len(records.l))
                THEN <<"", Page \o " Use offset="
                           \o ToString(SearchTreesHintOffset(a.offset.n, a.limit.n))
                           \o " to see more results.">>
                ELSE <<>>))))

\* get_tree_statistics: one group of the loop
TreeStatisticsItem(i, group_by, record) ==
    Then(FmtThousands(Get(record, "tree_count", JNum(0))), LAMBDA count :
    Val(<<Fmt2d(i) \o ". " \o Field(record, group_by, "Unknown") \o ": "
            \o count \o " trees">>))

\* mutant: the number of groups in place of the sum of their counts
TreeStatisticsTotalGroups(records) == Len(records)

\* get_tree_statistics: `sum(r.get("tree_count", 0) for r in records)`
TreeStatisticsTotal(records) ==
    Sum([i \in 1..Len(records) |-> Get(records[i].o, "tree_count", JNum(0)).n])

\* get_tree_statistics: the body after the Gateway call
TreeStatisticsRender(a, result) ==
    LET records == Get(result, "results", JList(<<>>))
    IN  IF ~Truthy(records)
        THEN Val(<<"No statistics found for grouping by '"
                     \o a.group_by.s \o "'.">>)
        ELSE
        Then(CollectLines([i \in 1..Len(records.l) |->
                 TreeStatisticsItem(i, a.group_by.s, records.l[i].o)]),
             LAMBDA items :
        Val(<<"Statistics grouped by '" \o a.group_by.s \o "':", "">>
            \o items
            \o <<"", "Total in these groups: "
                     \o Commas(TreeStatisticsTotal(records.l)) \o " trees">>))

\* find_trees_near_location: one record of the loop
NearLocationItem(i, record) ==
    LET coords == Get(record, "geo_point_2d", JObj(EmptyMap))
    IN  Then(GetOf(coords, "lat", JStr("N/A")), LAMBDA lat :
        Then(GetOf(coords, "lon", JStr("N/A")), LAMBDA lon :
        Then(LowerRemarkable(record), LAMBDA flagged :
        Val(<<"",
              ToString(i) \o ". " \o Field(record, "libellefrancais", "Unknown")
                \o " " \o (IF flagged THEN Star \o " (Remarkable)" ELSE ""),
              "   Height: " \o Field(record, "hauteurenm", "N/A") \o " m",
              "   Address: " \o Field(record, "adresse", "N/A"),
              "   District: " \o Field(record, "arrondissement", "N/A"),
              "   Coordinates: " \o PyStr(lat) \o ", " \o PyStr(lon)>>))))

\* find_trees_near_location: the body after the Gateway call
NearLocationRender(a, result) ==
    LET records == Get(result, "results", JList(<<>>))
    IN  IF ~Truthy(records)
        THEN Val(<<"No trees found within " \o PyStr(a.distance_meters)
                     \o "m of coordinates (" \o PyStr(a.latitude) \o ", "
                     \o PyStr(a.longitude) \o ").">>)
        ELSE
        Then(Fmt6f(a.latitude), LAMBDA lat :
        Then(Fmt6f(a.longitude), LAMBDA lon :
        Then(CollectLines([i \in 1..Len(records.l) |->
                              NearLocationItem(i, records.l[i].o)]),
             LAMBDA items :
        Val(<<"Found " \o ToString(Len(records.l)) \o " trees within "
                \o PyStr(a.distance_meters) \o "m of (" \o lat \o ", "
                \o lon \o "):", "">>
            \o items))))

\* find_remarkable_trees: one record of the loop
RemarkableItem(i, record) ==
    LET coords == Get(record, "geo_point_2d", JObj(EmptyMap))
        lines == <<"",
                   ToString(i) \o ". "
                     \o Field(record, "libellefrancais", "Unknown") \o " " \o Star,
                   "   Height: " \o Field(record, "hauteurenm", "N/A") \o " m",
                   "   Circumference: "
                     \o Field(record, "circonferenceencm", "N/A") \o " cm",
                   "   Address: " \o Field(record, "adresse", "N/A"),
                   "   District: " \o Field(record, "arrondissement", "N/A"),
                   "   Stage: " \o Field(record, "stadedeveloppement", "N/A")>>
    IN  IF ~Truthy(coords) THEN Val(lines)
        ELSE Then(GetOf(coords, "lat", JStr("N/A")), LAMBDA lat :
             Then(GetOf(coords, "lon", JStr("N/A")), LAMBDA lon :
             Val(lines \o <<"   Coordinates: " \o PyStr(lat) \o ", "
                              \o PyStr(lon)>>)))

\* find_remarkable_trees: the body after the Gateway call
RemarkableRender(a, result) ==
    LET total_count == Get(result, "total_count", JNum(0))
        records == Get(result, "results", JList(<<>>))
    IN  IF ~Truthy(records)
        THEN Val(<<"No remarkable trees found matching your criteria.">>)
        ELSE
        Then(FmtThousands(total_count), LAMBDA total :
        Then(CollectLines([i \in 1..Len(records.l) |->
                              RemarkableItem(i, records.l[i].o)]),
             LAMBDA items :
        Val(<<Star \o " Found " \o total \o " remarkable trees in Paris",
              "Showing " \o ToString(Len(records.l)) \o " results:", "">>
            \o items
            \o (IF total_count.n > Len(records.l)
                THEN <<"", Page \o " "
                           \o ToString(total_count.n - Len(records.l))
                           \o " more remarkable trees available.">>
                ELSE <<>>))))

\* get_tree_species_info: `sum(s.get("tree_count", 0) for s in stats)`
SpeciesTotal(stats) ==
    IF \E i \in 1..Len(stats) : Get(stats[i].o, "tree_count", JNum(0)).t # "num"
    THEN Exc("TypeError", "unsupported operand type(s) for +: 'int' and 'NoneType'")
    ELSE Val(Sum([i \in 1..Len(stats) |->
                     Get(stats[i].o, "tree_count", JNum(0)).n]))

\* get_tree_species_info: one district of stats[:10]
SpeciesDistrictItem(stat) ==
    Then(FmtThousands(Get(stat, "tree_count", JNum(0))), LAMBDA count :
    Val(<<"  - " \o Field(stat, "arrondissement", "Unknown") \o ": "
            \o count \o " trees">>))

\* get_tree_species_info: one of the tallest examples
SpeciesExampleItem(i, tree) ==
    Then(LowerRemarkable(tree), LAMBDA flagged :
    Val(<<"",
          "  " \o ToString(i) \o ". Height: "
            \o Field(tree, "hauteurenm", "N/A") \o " m"
            \o (IF flagged THEN " " \o Star ELSE ""),
          "     Location: " \o Field(tree, "adresse", "N/A"),
          "     District: " \o Field(tree, "arrondissement", "N/A"),
          "     Circumference: " \o Field(tree, "circonferenceencm", "N/A")
                                 \o " cm">>))

\* mutant: `or` in place of `and`
SpeciesNotFoundEither(stats, examples) == ~Truthy(stats) \/ ~Truthy(examples)

\* get_tree_species_info: `if not stats and not examples`
SpeciesNotFound(stats, examples) == ~Truthy(stats) /\ ~Truthy(examples)

\* get_tree_species_info: the body after the two Gateway calls
SpeciesRender(a, stats_result, examples_result) ==
    LET stats == Get(stats_result, "results", JList(<<>>))
        examples == Get(examples_result, "results", JList(<<>>))
    IN  IF SpeciesNotFound(stats, examples)
        THEN Val(<<"No trees found for species '" \o a.species_name.s
                     \o "'. Please check the spelling.">>)
        ELSE
        Then(SpeciesTotal(stats.l), LAMBDA total_count :
        Then(IF Truthy(stats)
             THEN CollectLines(
                    <<Val(<<"Distribution by district:">>)>>
                    \o [i \in 1..Min(Len(stats.l), DISTRICTS_SHOWN) |->
                          SpeciesDistrictItem(stats.l[i].o)])
             ELSE Val(<<>>), LAMBDA districts :
        Then(IF Truthy(examples)
             THEN CollectLines(
                    <<Val(<<"", "Tallest examples:">>)>>
                    \o [i \in 1..Len(examples.l) |->
                          SpeciesExampleItem(i, examples.l[i].o)])
             ELSE Val(<<>>), LAMBDA tallest :
        Val(<<"Information about '" \o a.species_name.s \o "' in Paris:", "",
              "Total count: " \o Commas(total_count) \o " trees", "">>
            \o districts \o tallest))))

\* get_dataset_info: one field descriptor of fields[:15]
DatasetFieldItem(f) ==
    Then(GetOf(f, "name", JStr("N/A")), LAMBDA name :
    Then(GetOf(f, "type", JStr("N/A")), LAMBDA type :
    Then(GetOf(f, "label", JStr("N/A")), LAMBDA label :
    Val(<<"  - " \o PyStr(name) \o " (" \o PyStr(type) \o "): "
            \o PyStr(label)>>))))

\* get_dataset_info: the body after the Gateway call
DatasetInfoRender(result) ==
    Then(GetOf(Get(result, "dataset", JObj(EmptyMap)), "metas", JObj(EmptyMap)),
         LAMBDA metasAll :
    Then(GetOf(metasAll, "default", JObj(EmptyMap)), LAMBDA metas :
    Then(GetOf(metas, "title", JNull), LAMBDA title :
    Then(GetOf(metas, "description", JNull), LAMBDA description :
    Then(GetOf(metas, "records_count", JNull), LAMBDA records_count :
    LET fields == Get(Get(result, "dataset", JObj(EmptyMap)).o, "fields",
                      JList(<<>>))
    IN
    Then(IF fields.t # "list"
         THEN Exc("TypeError", "'" \o fields.t \o "' object is not subscriptable")
         ELSE CollectLines([i \in 1..Min(Len(fields.l), FIELDS_SHOWN) |->
                               DatasetFieldItem(fields.l[i])]),
         LAMBDA fieldLines :
    Then(FmtThousands(OrElse(records_count, JNum(0))), LAMBDA count :
    Val(<<"Paris Trees Dataset Information:",
          "        ",
          "Title: " \o PyStr(OrElse(title, JStr("N/A"))),
          "Total Records: " \o count,
          "",
          "Description: " \o PyStr(OrElse(description, JStr("N/A"))),
          "",
          "Available Fields:">>
        \o (IF fieldLines = <<>> THEN <<"">> ELSE fieldLines)
        \o <<"... and more fields available.", "">>))))))))

-----------------------------------------------------------------------------
(* The tools' bodies: try ... except Exception *)

ErrorPrefix(tool) ==
    CASE tool = "get_dataset_info" -> "Error fetching dataset info: "
      [] tool = "search_trees" -> "Error searching trees: "
      [] tool = "get_tree_statistics" -> "Error getting statistics: "
      [] tool = "find_trees_near_location" -> "Error finding nearby trees: "
      [] tool = "find_remarkable_trees" -> "Error finding remarkable trees: "
      [] tool = "get_tree_species_info" -> "Error getting species info: "

\* the text an except clause returns for the exception e
ErrorText(tool, e) ==
    <<ErrorPrefix(tool) \o e.msg>>
    \o (IF tool = "search_trees" THEN <<"Debug info: " \o e.type>> ELSE <<>>)

\* mutant: `except httpx.HTTPStatusError`, the one class the Gateway documents
CatchesStatusErrorOnly(tool, e) == e.type = "HTTPStatusError"

\* `except Exception` catches every exception class the Gateway and the
\* rendering raise
Catches(tool, e) == TRUE

\* what the invocation hands to its caller: the text, or the exception
Finish(tool, r) ==
    IF r.raised /\ Catches(tool, r) THEN Val(ErrorText(tool, r)) ELSE r

\* the code after the last Gateway call, given the parsed bodies
Render(tool, a, bodies) ==
    CASE tool = "get_dataset_info" -> DatasetInfoRender(bodies[1])
      [] tool = "search_trees" -> SearchTreesRender(a, bodies[1])
      [] tool = "get_tree_statistics" -> TreeStatisticsRender(a, bodies[1])
      [] tool = "find_trees_near_location" -> NearLocationRender(a, bodies[1])
      [] tool = "find_remarkable_trees" -> RemarkableRender(a, bodies[1])
      [] tool = "get_tree_species_info" -> SpeciesRender(a, bodies[1], bodies[2])

\* mutant: arguments and locals kept in one module-level frame
FrameShared(i) == 1

\* each invocation runs in a frame of its own: its arguments and locals
FrameOf(i) == i

-----------------------------------------------------------------------------
(* What callers pass and what the upstream answers *)

OptStrings(x) == {None, JStr(""), JStr(x)}
Limits == {JNum(2), JNum(MAX_LIMIT), JNum(MAX_LIMIT + 50)}
Offsets == {JNum(0), JNum(1)}

ArgsOf(tool) ==
    CASE tool = "get_dataset_info" -> {EmptyMap}
      [] tool = "search_trees" ->
           [where : OptStrings("hauteurenm > 25"), limit : Limits,
            offset : Offsets, select : OptStrings("libellefrancais,genre"),
            order_by : {None, JStr("hauteurenm DESC")}]
      [] tool = "get_tree_statistics" ->
           [group_by : {JStr(""), JStr("arrondissement")},
            where : OptStrings("hauteurenm > 20"), limit : Limits]
      [] tool = "find_trees_near_location" ->
           [latitude : {JFloat("48.8584", "48.858400")},
            longitude : {JFloat("2.2945", "2.294500")},
            distance_meters : {JNum(0), JNum(500)}, limit : Limits]
      [] tool = "find_remarkable_trees" ->
           [limit : Limits, arrondissement : OptStrings("PARIS 5E ARR")]
      [] tool = "get_tree_species_info" -> [species_name : {JStr("Platane")}]

\* fewer arguments for the runs with several invocations in flight
FewArgsOf(tool) ==
    CASE tool = "get_dataset_info" -> {EmptyMap}
      [] tool = "search_trees" ->
           [where : {None}, limit : {JNum(2), JNum(MAX_LIMIT + 50)},
            offset : {JNum(0)}, select : {None}, order_by : {None}]
      [] tool = "get_tree_statistics" ->
           [group_by : {JStr("arrondissement")}, where : {None},
            limit : {JNum(2)}]
      [] tool = "find_trees_near_location" ->
           [latitude : {JFloat("48.8584", "48.858400")},
            longitude : {JFloat("2.2945", "2.294500")},
            distance_meters : {JNum(500)}, limit : {JNum(2)}]
      [] tool = "find_remarkable_trees" ->
           [limit : {JNum(2)}, arrondissement : {None}]
      [] tool = "get_tree_species_info" ->
           [species_name : {JStr("Platane"), JStr("Tilleul")}]

Coords == JObj([lat |-> JNum(48), lon |-> JNum(2)])

BaseTree ==
    [libellefrancais |-> JStr("Platane"), genre |-> JStr("Platanus"),
     hauteurenm |-> JNum(30), circonferenceencm |-> JNum(250),
     arrondissement |-> JStr("PARIS 5E ARR"), adresse |-> JStr("JARDIN DES PLANTES"),
     stadedeveloppement |-> JStr("Adulte")]

TreeRecords ==
    { JObj(BaseTree @@ [remarquable |-> JStr("OUI"), geo_point_2d |-> Coords]),
      JObj(BaseTree @@ [remarquable |-> JStr("Oui")]),
      JObj(BaseTree @@ [remarquable |-> JStr("NON"), geo_point_2d |-> Coords]),
      JObj(EmptyMap),
      JObj(BaseTree @@ [remarquable |-> JNull, geo_point_2d |-> Coords]),
      JObj(BaseTree @@ [remarquable |-> JStr(""),
                        geo_point_2d |-> JObj(EmptyMap)]),
      JObj([libellefrancais |-> JNull, hauteurenm |-> JNull,
            remarquable |-> JStr("oui"), geo_point_2d |-> Coords]),
      JObj(BaseTree @@ [remarquable |-> JStr("NON"), geo_point_2d |-> JNull]) }

GroupRecords ==
    { JObj([arrondissement |-> JStr("PARIS 5E ARR"), tree_count |-> JNum(1200)]),
      JObj([arrondissement |-> JStr("PARIS 7E ARR")]),
      JObj([arrondissement |-> JStr("PARIS 9E ARR"), tree_count |-> JNull]) }

FieldDescriptor ==
    JObj([name |-> JStr("genre"), type |-> JStr("text"), label |-> JStr("Genre")])

DatasetBodies ==
    { EmptyMap,
      [dataset |-> JNull],
      [dataset |-> JObj([metas |-> JObj([default |->
                            JObj([title |-> JStr("Les arbres"),
                                  description |-> JNull,
                                  records_count |-> JNum(200000)])]),
                         fields |-> JList(<<FieldDescriptor, JObj(EmptyMap)>>)])],
      [dataset |-> JObj([fields |->
                            JList([i \in 1..(FIELDS_SHOWN + 1) |->
                                      FieldDescriptor])])] }

\* the arrays of at most n of the given records
Lists(records, n) == UNION {[1..k -> records] : k \in 0..n}

\* upstream total_count values: key absent, or a number
TotalCounts == {JNull, JNum(1), JNum(3)}

\* the bodies {"total_count": .., "results": [..]}, either key possibly missing
RecordBodies(records, n) ==
    { (IF tc = JNull THEN EmptyMap ELSE "total_count" :> tc)
      @@ (IF rs = JNull THEN EmptyMap ELSE "results" :> rs) :
        tc \in TotalCounts,
        rs \in {JNull} \cup {JList(l) : l \in Lists(records, n)} }

\* a full page: as many records as the request's `limit` asks for, out of
\* a larger result set
FullPage(req) ==
    [total_count |-> JNum(3 * MAX_LIMIT),
     results |-> JList([k \in 1..req.params["limit"].n |-> JObj(BaseTree)])]

\* the JSON bodies the upstream may answer a request with
BodiesFor(req) ==
    IF req.url = Url(MetadataEndpoint) THEN DatasetBodies
    ELSE IF "group_by" \in DOMAIN req.params
    THEN RecordBodies(GroupRecords, MaxRecords)
    ELSE RecordBodies(TreeRecords, MaxRecords) \cup {FullPage(req)}

FewBodiesFor(req) ==
    IF req.url = Url(MetadataEndpoint)
    THEN {EmptyMap}
    ELSE IF "group_by" \in DOMAIN req.params
    THEN { [total_count |-> JNum(3), results |-> JList(<<r>>)] :
             r \in {x \in GroupRecords : "tree_count" \in DOMAIN x.o
                                         /\ x.o["tree_count"] # JNull} }
    ELSE { [total_count |-> JNum(3), results |-> JList(l)] :
             l \in {<<>>, <<JObj(BaseTree @@ [remarquable |-> JStr("OUI"),
                                              geo_point_2d |-> Coords])>>} }

\* what make_api_request raises: transport failure, timeout, non-2xx
\* status (raise_for_status), invalid JSON body (response.json)
GatewayFailures ==
    { Exc("ConnectError", "All connection attempts failed"),
      Exc("ReadTimeout", "The read operation timed out"),
      Exc("HTTPStatusError", "Client error '400 Bad Request' for url"),
      Exc("JSONDecodeError", "Expecting value: line 1 column 1 (char 0)") }

FewFailures == {Exc("ReadTimeout", "The read operation timed out")}

-----------------------------------------------------------------------------
(* The state machine: invocation i is idle, awaiting a Gateway call, or done *)

Invocations == 1..NumCalls

NoCall == [tool |-> "", a |-> EmptyMap]
NoReturn == Val(<<>>)

Init ==
    /\ pc = [i \in Invocations |-> "idle"]
    /\ call = [i \in Invocations |-> NoCall]
    /\ locals = [i \in Invocations |-> EmptyMap]
    /\ sent = [i \in Invocations |-> <<>>]
    /\ got = [i \in Invocations |-> <<>>]
    /\ ret = [i \in Invocations |-> NoReturn]

\* the parsed bodies of the Gateway calls that returned
BodiesOf(outcomes) == [k \in 1..Len(outcomes) |-> outcomes[k].v]

\* the host calls a tool: the body runs up to its first Gateway call
Invoke(i, tool, a) ==
    /\ pc[i] = "idle"
    /\ pc' = [pc EXCEPT ![i] = "awaiting"]
    /\ call' = [call EXCEPT ![i] = [tool |-> tool, a |-> a]]
    /\ locals' = [locals EXCEPT ![FrameOf(i)] = a]
    /\ sent' = [sent EXCEPT ![i] = <<Request(tool, a, 1)>>]
    /\ got' = [got EXCEPT ![i] = <<>>]
    /\ ret' = [ret EXCEPT ![i] = NoReturn]

\* make_api_request raises e: the except clause of the tool runs
GatewayRaises(i, e) ==
    /\ pc[i] = "awaiting"
    /\ pc' = [pc EXCEPT ![i] = "done"]
    /\ got' = [got EXCEPT ![i] = Append(@, e)]
    /\ ret' = [ret EXCEPT ![i] = Finish(call[i].tool, e)]
    /\ UNCHANGED <<call, locals, sent>>

\* make_api_request returns body and the tool goes on to its next call
GatewayReturnsThenCall(i, body) ==
    /\ pc[i] = "awaiting"
    /\ Len(got[i]) + 1 < CallsOf(call[i].tool)
    /\ got' = [got EXCEPT ![i] = Append(@, Val(body))]
    /\ sent' = [sent EXCEPT ![i] =
                  Append(@, Request(call[i].tool, locals[FrameOf(i)],
                                    Len(got[i]) + 2))]
    /\ UNCHANGED <<pc, call, locals, ret>>

\* make_api_request returns body and the tool renders its text
GatewayReturnsThenRender(i, body) ==
    /\ pc[i] = "awaiting"
    /\ Len(got[i]) + 1 = CallsOf(call[i].tool)
    /\ pc' = [pc EXCEPT ![i] = "done"]
    /\ got' = [got EXCEPT ![i] = Append(@, Val(body))]
    /\ ret' = [ret EXCEPT ![i] =
                 Finish(call[i].tool,
                        Render(call[i].tool, locals[FrameOf(i)],
                               BodiesOf(Append(got[i], Val(body)))))]
    /\ UNCHANGED <<call, locals, sent>>

\* the host takes the result; nothing of the invocation is kept
Deliver(i) ==
    /\ pc[i] = "done"
    /\ pc' = [pc EXCEPT ![i] = "idle"]
    /\ call' = [call EXCEPT ![i] = NoCall]
    /\ locals' = [locals EXCEPT ![FrameOf(i)] = EmptyMap]
    /\ sent' = [sent EXCEPT ![i] = <<>>]
    /\ got' = [got EXCEPT ![i] = <<>>]
    /\ ret' = [ret EXCEPT ![i] = NoReturn]

\* the request invocation i is awaiting the answer of
Pending(i) == sent[i][Len(sent[i])]

\* the bodies the upstream may answer invocation i with
Answers(i) == IF pc[i] = "awaiting" THEN BodiesFor(Pending(i)) ELSE {}
FewAnswers(i) == IF pc[i] = "awaiting" THEN FewBodiesFor(Pending(i)) ELSE {}

\* one invocation at a time, over the full sets of arguments and answers
Next ==
    \/ \E tool \in Tools : \E a \in ArgsOf(tool) : Invoke(1, tool, a)
    \/ \E e \in GatewayFailures : GatewayRaises(1, e)
    \/ \E body \in Answers(1) : GatewayReturnsThenCall(1, body)
    \/ \E body \in Answers(1) : GatewayReturnsThenRender(1, body)
    \/ Deliver(1)

Spec == Init /\ [][Next]_vars

\* several invocations in flight, interleaved at their Gateway calls
NextConcurrent ==
    \E i \in Invocations :
        \/ \E tool \in Tools : \E a \in FewArgsOf(tool) : Invoke(i, tool, a)
        \/ \E e \in FewFailures : GatewayRaises(i, e)
        \/ \E body \in FewAnswers(i) : GatewayReturnsThenCall(i, body)
        \/ \E body \in FewAnswers(i) : GatewayReturnsThenRender(i, body)
        \/ Deliver(i)

SpecConcurrent == Init /\ [][NextConcurrent]_vars

-----------------------------------------------------------------------------
(* Properties *)

Done(i) == pc[i] = "done"

\* every Gateway call of invocation i so far returned a body
Succeeded(i) == \A k \in DOMAIN got[i] : ~got[i][k].raised

\* r is a returned text whose first line begins with "Error "
IsErrorText(r) == ~r.raised /\ r.v # <<>> /\ StartsWith(r.v[1], "Error ")

\* the `results` array of a body ([] when the key is missing)
ResultsOf(body) == IF "results" \in DOMAIN body THEN body["results"].l ELSE <<>>

\* the arguments `limit` is one of
LimitTools == {"search_trees", "get_tree_statistics",
               "find_trees_near_location", "find_remarkable_trees"}

\* C1: whenever a Gateway call of an invocation fails (transport failure,
\* timeout, non-2xx status, invalid JSON), the invocation is over, it has
\* returned a text whose first line begins with "Error ", and it has not
\* raised to its caller.
C1_GatewayFailureReturnsErrorText ==
    \A i \in Invocations :
        (\E k \in DOMAIN got[i] : got[i][k].raised)
            => /\ Done(i)
               /\ ~ret[i].raised
               /\ IsErrorText(ret[i])

\* C1 witness: the second Gateway call of get_tree_species_info timed out and
\* the tool returned its error text.
C1_Witness ==
    /\ Done(1)
    /\ call[1].tool = "get_tree_species_info"
    /\ Len(got[1]) = 2
    /\ got[1][2].raised /\ got[1][2].type = "ReadTimeout"
    /\ ret[1] = Val(<<"Error getting species info: The read operation timed out">>)

\* C2 (as claimed): every transmitted `limit` is at most 100, and a tool called
\* with limit > 100 transmits limit = 100.
C2_LimitAlwaysClamped ==
    \A i \in Invocations : \A k \in DOMAIN sent[i] :
        LET p == sent[i][k].params
        IN  /\ "limit" \in DOMAIN p => p["limit"].n <= 100
            /\ (call[i].tool \in LimitTools /\ call[i].a.limit.n > 100)
                   => ("limit" \in DOMAIN p /\ p["limit"].n = 100)

\* C3: an invocation never has more than one request outstanding; a second
\* request exists only in get_tree_species_info and only after the first
\* returned a body; after a failed request no further request is issued; a
\* finished invocation issued exactly one GET, or, for get_tree_species_info
\* whose first call succeeded, exactly two.
C3_OneOrTwoSequentialCalls ==
    \A i \in Invocations :
        /\ pc[i] = "idle" <=> sent[i] = <<>>
        /\ pc[i] = "awaiting" => Len(sent[i]) = Len(got[i]) + 1
        /\ Done(i) => Len(sent[i]) = Len(got[i])
        /\ \A k \in DOMAIN got[i] : got[i][k].raised => k = Len(sent[i])
        /\ Len(sent[i]) >= 2
               => call[i].tool = "get_tree_species_info" /\ ~got[i][1].raised
        /\ Done(i) =>
               Len(sent[i]) = IF /\ call[i].tool = "get_tree_species_info"
                                 /\ ~got[i][1].raised
                              THEN 2 ELSE 1

\* C3 witness: get_tree_species_info finished after two calls that both
\* returned a body.
C3_Witness ==
    /\ Done(1)
    /\ call[1].tool = "get_tree_species_info"
    /\ Len(sent[1]) = 2 /\ Len(got[1]) = 2
    /\ Succeeded(1)
    /\ sent[1][1].params # sent[1][2].params

-----------------------------------------------------------------------------

\* the tools that read a `results` array
ResultTools == Tools \ {"get_dataset_info"}

\* the fixed "no results" sentence of a tool
NoResultsSentence(tool, a) ==
    CASE tool = "search_trees" -> "No trees found matching your criteria."
      [] tool = "get_tree_statistics" ->
           "No statistics found for grouping by '" \o a.group_by.s \o "'."
      [] tool = "find_trees_near_location" ->
           "No trees found within " \o PyStr(a.distance_meters)
           \o "m of coordinates (" \o PyStr(a.latitude) \o ", "
           \o PyStr(a.longitude) \o ")."
      [] tool = "find_remarkable_trees" ->
           "No remarkable trees found matching your criteria."
      [] tool = "get_tree_species_info" ->
           "No trees found for species '" \o a.species_name.s
           \o "'. Please check the spelling."

SaysNoResults(i) ==
    ret[i] = Val(<<NoResultsSentence(call[i].tool, call[i].a)>>)

HasLine(i, line) == \E n \in DOMAIN ret[i].v : ret[i].v[n] = line

\* invocation i finished with every Gateway call answered by a body
Answered(i) == Done(i) /\ Succeeded(i)

-----------------------------------------------------------------------------

\* the key is absent from the record, or its value is null
Missing(record, key) == key \notin DOMAIN record \/ record[key] = JNull

\* the lines a tool prints one record field on: <<key, prefix, placeholder,
\* suffix>>
FieldLines(tool) ==
    CASE tool = "search_trees" ->
           { <<"libellefrancais", "   Species: ", "Unknown", "">>,
             <<"genre", "   Genus: ", "N/A", "">>,
             <<"hauteurenm", "   Height: ", "N/A", " m">>,
             <<"circonferenceencm", "   Circumference: ", "N/A", " cm">>,
             <<"arrondissement", "   District: ", "N/A", "">>,
             <<"adresse", "   Address: ", "N/A", "">>,
             <<"stadedeveloppement", "   Stage of Development: ", "N/A", "">> }
      [] tool = "find_trees_near_location" ->
           { <<"hauteurenm", "   Height: ", "N/A", " m">>,
             <<"adresse", "   Address: ", "N/A", "">>,
             <<"arrondissement", "   District: ", "N/A", "">>,
             <<"geo_point_2d", "   Coordinates: ", "N/A, N/A", "">> }
      [] tool = "find_remarkable_trees" ->
           { <<"hauteurenm", "   Height: ", "N/A", " m">>,
             <<"circonferenceencm", "   Circumference: ", "N/A", " cm">>,
             <<"adresse", "   Address: ", "N/A", "">>,
             <<"arrondissement", "   District: ", "N/A", "">>,
             <<"stadedeveloppement", "   Stage: ", "N/A", "">> }

\* the tools that print tree records from one Gateway call
TreeListTools == {"search_trees", "find_trees_near_location",
                  "find_remarkable_trees"}

\* C5 (as claimed): a tool that received records returned a normal report,
\* not an error text, and for every record field that is absent or null the
\* report has that field's line with the placeholder.
C5_MissingFieldsRenderPlaceholders ==
    \A i \in Invocations :
        (/\ Answered(i)
         /\ call[i].tool \in TreeListTools
         /\ ResultsOf(got[i][1].v) # <<>>)
            => /\ ~ret[i].raised
               /\ ~IsErrorText(ret[i])
               /\ \A k \in DOMAIN ResultsOf(got[i][1].v) :
                  \A f \in FieldLines(call[i].tool) :
                      Missing(ResultsOf(got[i][1].v)[k].o, f[1])
                          => HasLine(i, f[2] \o f[3] \o f[4])

\* the remarquable value of the record equals "oui" ignoring letter case
\* (an absent, null or empty value does not)
IsOui(record) ==
    /\ ~Missing(record, "remarquable")
    /\ Lower(record["remarquable"].s) = "oui"

\* the flag decision the tool makes for a record
FlagDecision(tool, record) ==
    IF tool = "search_trees" THEN SearchTreesRemarkable(record)
    ELSE LowerRemarkable(record)

FlagTools == {"search_trees", "find_trees_near_location",
              "get_tree_species_info"}

\* C6 (as claimed): for every record a flag-printing tool received, the
\* tool's decision is made without raising and is "remarkable" exactly when
\* the record's remarquable value equals "oui" ignoring case; a null, empty
\* or absent value is decided "not remarkable" by all three tools alike.
C6_RemarkableFlagUniform ==
    \A i \in Invocations :
        (Answered(i) /\ call[i].tool \in FlagTools) =>
            LET records == ResultsOf(got[i][Len(got[i])].v)
            IN  \A k \in DOMAIN records :
                    /\ FlagDecision(call[i].tool, records[k].o)
                           = Val(IsOui(records[k].o))
                    /\ \A tool \in FlagTools :
                           FlagDecision(tool, records[k].o)
                               = FlagDecision(call[i].tool, records[k].o)

\* the sum of the tree_count values of the groups, 0 for a group without one
RECURSIVE GroupCountSum(_)
GroupCountSum(groups) ==
    IF groups = <<>> THEN 0
    ELSE (IF "tree_count" \in DOMAIN Head(groups).o
          THEN Head(groups).o["tree_count"].n ELSE 0)
         + GroupCountSum(Tail(groups))

LastLine(i) == ret[i].v[Len(ret[i].v)]

\* C7: when get_tree_statistics returns a report for a non-empty response,
\* its last line is "Total in these groups: N trees" with N the sum of
\* tree_count over the returned groups (0 for a group lacking it), whatever
\* total_count the upstream reported.
C7_TotalIsSumOfReturnedGroups ==
    \A i \in Invocations :
        (/\ Answered(i)
         /\ call[i].tool = "get_tree_statistics"
         /\ ResultsOf(got[i][1].v) # <<>>
         /\ ~IsErrorText(ret[i]))
            => /\ ~ret[i].raised
               /\ LastLine(i) = "Total in these groups: "
                                \o Commas(GroupCountSum(ResultsOf(got[i][1].v)))
                                \o " trees"

\* C7 witness: two groups, one of them without tree_count, and an upstream
\* total_count of 3: the report says 1,200.
C7_Witness ==
    /\ Answered(1)
    /\ call[1].tool = "get_tree_statistics"
    /\ Len(ResultsOf(got[1][1].v)) = 2
    /\ \E k \in 1..2 : "tree_count" \notin DOMAIN ResultsOf(got[1][1].v)[k].o
    /\ "total_count" \in DOMAIN got[1][1].v
    /\ got[1][1].v["total_count"] = JNum(3)
    /\ LastLine(1) = "Total in these groups: 1,200 trees"

\* the upstream total_count of a body (0 when the key is missing)
TotalOf(body) == IF "total_count" \in DOMAIN body THEN body["total_count"].n ELSE 0

IsHint(line) == StartsWith(line, Page \o " Use offset=")

\* C8: when search_trees returns a report for a non-empty response, its first
\* line reports the upstream total_count, the number of records returned and
\* the offset passed in, and its last line is the pagination hint exactly
\* when total_count > offset + number of records returned.
C8_PaginationHintIffMore ==
    \A i \in Invocations :
        (/\ Answered(i)
         /\ call[i].tool = "search_trees"
         /\ ResultsOf(got[i][1].v) # <<>>
         /\ ~IsErrorText(ret[i]))
            => LET body == got[i][1].v
                   shown == Len(ResultsOf(body))
                   offset == call[i].a.offset.n
               IN  /\ ~ret[i].raised
                   /\ ret[i].v[1] = "Found " \o Commas(TotalOf(body))
                                    \o " trees total. Showing " \o ToString(shown)
                                    \o " results (offset: " \o ToString(offset)
                                    \o "):"
                   /\ IsHint(LastLine(i)) <=> TotalOf(body) > offset + shown
                   /\ \A n \in 1..(Len(ret[i].v) - 1) : ~IsHint(ret[i].v[n])

\* C8 witness: 2 records at offset 0 of 3 in total: the report ends with the
\* hint.
C8_Witness ==
    /\ Answered(1)
    /\ call[1].tool = "search_trees"
    /\ call[1].a.offset = JNum(0)
    /\ Len(ResultsOf(got[1][1].v)) = 2
    /\ TotalOf(got[1][1].v) = 3
    /\ ret[1].v[1] = "Found 3 trees total. Showing 2 results (offset: 0):"
    /\ IsHint(LastLine(1))

\* C8 witness of the other side: 2 records at offset 1 of 3 in total, no hint
C8_NoHintReached ==
    /\ Answered(1)
    /\ call[1].tool = "search_trees"
    /\ call[1].a.offset = JNum(1)
    /\ Len(ResultsOf(got[1][1].v)) = 2
    /\ TotalOf(got[1][1].v) = 3
    /\ ~IsErrorText(ret[1])
    /\ ~IsHint(LastLine(1))

-----------------------------------------------------------------------------

\* what an invocation of tool with arguments a returns when it runs alone
\* and its Gateway calls end as `outcomes`
AloneReturns(tool, a, outcomes) ==
    IF outcomes[Len(outcomes)].raised
    THEN Finish(tool, outcomes[Len(outcomes)])
    ELSE Finish(tool, Render(tool, a, BodiesOf(outcomes)))

\* C9: however invocations interleave at their Gateway calls, every request
\* an invocation transmitted is the one its own arguments determine, its
\* frame holds its own arguments, the text it returned is the one its own
\* arguments and the answers to its own requests determine when it runs
\* alone, and an idle slot holds nothing of an earlier invocation.
C9_InvocationsIndependent ==
    \A i \in Invocations :
        /\ pc[i] = "idle" =>
               /\ call[i] = NoCall /\ locals[i] = EmptyMap
               /\ sent[i] = <<>> /\ got[i] = <<>> /\ ret[i] = NoReturn
        /\ pc[i] # "idle" =>
               /\ locals[i] = call[i].a
               /\ \A k \in DOMAIN sent[i] :
                      sent[i][k] = Request(call[i].tool, call[i].a, k)
        /\ Done(i) => ret[i] = AloneReturns(call[i].tool, call[i].a, got[i])

\* C9 witness: two invocations of get_tree_species_info for different
\* species are finished at the same time, each after two answered calls, with
\* different answers and different texts.
C9_Witness ==
    /\ Answered(1) /\ Answered(2)
    /\ call[1].tool = "get_tree_species_info"
    /\ call[2].tool = "get_tree_species_info"
    /\ call[1].a # call[2].a
    /\ Len(got[1]) = 2 /\ Len(got[2]) = 2
    /\ got[1] # got[2]
    /\ ret[1] # ret[2]

\* the optional query arguments a caller passes through to the Gateway
OptionalKeys == {"where", "select", "order_by"}

PassThrough(tool) ==
    CASE tool = "search_trees" -> {"where", "select", "order_by"}
      [] tool = "get_tree_statistics" -> {"where"}
      [] OTHER -> {}

\* the optional arguments are omitted when absent or empty and transmitted
\* unchanged otherwise
OptionalsOmittedOrUnchanged(i) ==
    \A key \in PassThrough(call[i].tool) :
        LET given == call[i].a[key]
            p == sent[i][1].params
        IN  IF given = None \/ given = JStr("")
            THEN key \notin DOMAIN p
            ELSE key \in DOMAIN p /\ p[key] = given

\* C10 (as claimed): in every Gateway call the optional arguments are omitted
\* when absent or empty and transmitted unchanged otherwise, and no
\* transmitted parameter has an empty-string or null value.
C10_NoEmptyParameter ==
    \A i \in Invocations :
        pc[i] # "idle" =>
            /\ OptionalsOmittedOrUnchanged(i)
            /\ \A k \in DOMAIN sent[i] :
               \A key \in DOMAIN sent[i][k].params :
                   /\ sent[i][k].params[key] # JNull
                   /\ sent[i][k].params[key] # JStr("")

\* C10 (amended): in every Gateway call the optional arguments (where,
\* select, order_by) are omitted when absent or empty and transmitted
\* unchanged otherwise; no transmitted parameter is null; the only
\* transmitted parameter that can be an empty string is the required
\* group_by of get_tree_statistics, which is transmitted exactly as given.
C10_NoEmptyOptionalParameter ==
    \A i \in Invocations :
        pc[i] # "idle" =>
            /\ OptionalsOmittedOrUnchanged(i)
            /\ call[i].tool = "get_tree_statistics" =>
                   sent[i][1].params["group_by"] = call[i].a.group_by
            /\ \A k \in DOMAIN sent[i] :
               \A key \in DOMAIN sent[i][k].params :
                   /\ sent[i][k].params[key] # JNull
                   /\ sent[i][k].params[key] = JStr("") =>
                          /\ key = "group_by"
                          /\ key \notin OptionalKeys
                          /\ call[i].tool = "get_tree_statistics"
                          /\ call[i].a.group_by = JStr("")

\* C10 witness: search_trees called with where = "" and a non-empty select
\* transmitted select and no where; get_tree_statistics aside, this is the
\* case the claim is about.
C10_Witness ==
    /\ pc[1] = "awaiting"
    /\ call[1].tool = "search_trees"
    /\ call[1].a.where = JStr("")
    /\ call[1].a.select = JStr("libellefrancais,genre")
    /\ call[1].a.order_by = None
    /\ DOMAIN sent[1][1].params = {"limit", "offset", "select"}
    /\ sent[1][1].params["select"] = JStr("libellefrancais,genre")

-----------------------------------------------------------------------------

\* a Gateway call of invocation i got a 2xx response with an invalid JSON body
GotInvalidJson(i) ==
    \E k \in DOMAIN got[i] : got[i][k].raised /\ got[i][k].type = "JSONDecodeError"

\* the body is valid JSON without one of the keys total_count, results
LacksTopLevelKey(body) ==
    "total_count" \notin DOMAIN body \/ "results" \notin DOMAIN body

\* C11 (as claimed): a tool that received an invalid JSON body, or a JSON body
\* without total_count or without results, returned an error text.
C11_MalformedResponseIsError ==
    \A i \in Invocations :
        /\ GotInvalidJson(i) => Done(i) /\ IsErrorText(ret[i])
        /\ (/\ Answered(i)
            /\ call[i].tool \in ResultTools
            /\ \E k \in DOMAIN got[i] : LacksTopLevelKey(got[i][k].v))
               => IsErrorText(ret[i])

\* C11 (amended): an invalid JSON body makes the tool return an error text;
\* a JSON body without `results` is read as an empty result set (the tool
\* returns its "no results" sentence, get_tree_species_info when both bodies
\* lack it), and a body without `total_count` is read as total_count 0 (the
\* first line of search_trees and find_remarkable_trees reports 0): neither
\* is an error.
C11_MissingKeysTakeDefaults ==
    \A i \in Invocations :
        /\ GotInvalidJson(i) => Done(i) /\ IsErrorText(ret[i])
        /\ (Answered(i) /\ call[i].tool \in ResultTools) =>
               /\ (\A k \in DOMAIN got[i] : "results" \notin DOMAIN got[i][k].v)
                      => SaysNoResults(i)
               /\ (/\ "total_count" \notin DOMAIN got[i][1].v
                   /\ ResultsOf(got[i][1].v) # <<>>) =>
                      /\ call[i].tool = "search_trees" =>
                             ret[i].v[1] =
                                 "Found 0 trees total. Showing "
                                 \o ToString(Len(ResultsOf(got[i][1].v)))
                                 \o " results (offset: "
                                 \o ToString(call[i].a.offset.n) \o "):"
                      /\ call[i].tool = "find_remarkable_trees" =>
                             ret[i].v[1] =
                                 Star \o " Found 0 remarkable trees in Paris"

\* C11 witness: search_trees received two records and no total_count and
\* returned a report whose header says 0 trees in total.
C11_Witness ==
    /\ Answered(1)
    /\ call[1].tool = "search_trees"
    /\ DOMAIN got[1][1].v = {"results"}
    /\ Len(ResultsOf(got[1][1].v)) = 2
    /\ ret[1].v[1] = "Found 0 trees total. Showing 2 results (offset: 0):"

\* C11, the other missing key: search_trees received total_count 3 and no
\* results and returned its "no results" sentence.
C11_NoResultsKeyReached ==
    /\ Answered(1)
    /\ call[1].tool = "search_trees"
    /\ DOMAIN got[1][1].v = {"total_count"}
    /\ ret[1] = Val(<<"No trees found matching your criteria.">>)

-----------------------------------------------------------------------------

\* the upstream returned as many records as the transmitted limit asked for
GotFullPage(i) ==
    Len(ResultsOf(got[i][1].v)) = sent[i][1].params["limit"].n

\* C12 (as claimed): when search_trees receives a full page and prints the
\* pagination hint, the offset the hint names is the offset passed in plus
\* the number of records returned (= the transmitted limit), so that the next
\* call starts at the first record not yet shown.
C12_HintOffsetIsNextRecord ==
    \A i \in Invocations :
        (/\ Answered(i)
         /\ call[i].tool = "search_trees"
         /\ ResultsOf(got[i][1].v) # <<>>
         /\ GotFullPage(i)
         /\ ~IsErrorText(ret[i])
         /\ IsHint(LastLine(i)))
            => LastLine(i) =
                   Page \o " Use offset="
                   \o ToString(call[i].a.offset.n + Len(ResultsOf(got[i][1].v)))
                   \o " to see more results."

\* C12, the case that holds: with a limit of at most MAX_LIMIT a full page is
\* followed by the hint naming offset + limit = offset + records returned.
C12_SmallLimitReached ==
    /\ Answered(1)
    /\ call[1].tool = "search_trees"
    /\ call[1].a.limit = JNum(MAX_LIMIT) /\ call[1].a.offset = JNum(1)
    /\ Len(ResultsOf(got[1][1].v)) = MAX_LIMIT
    /\ LastLine(1) = Page \o " Use offset=101 to see more results."

\* C12, the failing case: limit 150 is transmitted as 100, 100 records come
\* back, and the hint names offset 150.
C12_GapReached ==
    /\ Answered(1)
    /\ call[1].tool = "search_trees"
    /\ call[1].a.limit = JNum(MAX_LIMIT + 50) /\ call[1].a.offset = JNum(0)
    /\ sent[1][1].params["limit"] = JNum(MAX_LIMIT)
    /\ Len(ResultsOf(got[1][1].v)) = MAX_LIMIT
    /\ LastLine(1) = Page \o " Use offset=150 to see more results."

====
